---- MODULE Spec2Model ----
(***************************************************************************)
(* Model of the bounded-concurrency batch executor of phantom-ecs          *)
(* (internal/batch/batch.go): BatchProcessor.ProcessServices, the retry    *)
(* wrapper processServiceWithRetry (a call of retry.Do of                  *)
(* github.com/avast/retry-go/v4) and the caller's context.                 *)
(*                                                                         *)
(* One ProcessServices call is modelled: the calling goroutine (mainPc),   *)
(* one goroutine per item (pc[i]), the buffered channel used as semaphore  *)
(* (sem = number of buffered tokens), the WaitGroup counter, the           *)
(* pre-allocated results slice and the progress bar.  The Unit-of-Work     *)
(* (Processor.Process) is opaque: each invocation returns nil or an error  *)
(* of its own choosing.  Time is not modelled: a retry delay may elapse at *)
(* any moment, the context may be cancelled at any moment.                 *)
(***************************************************************************)
EXTENDS Integers, Sequences, FiniteSets, TLC

\* ------------------------------------------------------------------ bounds
\* Largest number of item keys in one batch.
MaxItems == 2
\* Largest RetryAttempts explored.
MaxRetry == 1
\* Longest result sequence given to CalculateStatistics.
MaxStatLen == 3
\* Largest Duration of a result given to CalculateStatistics.
MaxDuration == 2
\* Most PHANTOM_ECS_* variables set in an environment.
MaxEnvSet == 2
\* RetryAttempts below zero are explored down to -MaxNegRetry.
MaxNegRetry == 3

\* ------------------------------------------------------------------ values
\* Error values.  Nil is the nil error.
Nil == [kind |-> "nil", item |-> 0, attempt |-> 0]
\* ctx.Err() of a cancelled context.
CtxErr == [kind |-> "context canceled", item |-> 0, attempt |-> 0]
\* retry.Error, the error log retry.Do returns when it gives up.
RetryErr == [kind |-> "retry.Error", item |-> 0, attempt |-> 0]
\* The error the Unit-of-Work returns from its k-th invocation for item i:
\* every failing invocation returns an error value of its own.
UowErr(i, k) == [kind |-> "uow", item |-> i, attempt |-> k]

\* A *ProcessResult is the empty sequence (nil) or a one-element sequence
\* holding the ProcessResult pointed to.
NilResult == <<>>

\* The item key at input position j.  Keys are opaque to the executor (it
\* never compares them), so one pattern with equal and unequal keys is taken:
\* a, b, a, b, ...
KeyAt(j) == IF j % 2 = 1 THEN "a" ELSE "b"

\* ... and, for batches of two or more, the batch whose keys are all equal.
Inputs ==
    {[j \in 1..len |-> KeyAt(j)] : len \in 0..MaxItems}
        \cup {s \in {<<"a", "a">>} : MaxItems >= 2}

\* MaxConcurrency runs from -1 up to the number of items: a capacity of
\* MaxItems or more never makes a worker wait.
Configs ==
    [MaxConcurrency : (-1)..MaxItems,
     RetryAttempts  : 0..MaxRetry,
     ShowProgress   : BOOLEAN]

VARIABLES
    cfg,          \* bp.config
    services,     \* the services argument
    cancelled,    \* ctx is done
    mainPc,       \* position of the goroutine that called ProcessServices
    nextIdx,      \* loop variable of the for-range that launches the workers
    pc,           \* position of each worker goroutine
    sem,          \* len(semaphore): tokens in the buffered channel
    wg,           \* WaitGroup counter
    results,      \* the results slice
    bar,          \* progress bar: [made, count, finished]
    n,            \* retry.Do's retry counter of each worker
    lastErr,      \* processServiceWithRetry's lastErr of each worker
    doErr,        \* what retry.Do returned to each worker
    calls,        \* history: Unit-of-Work invocations started per item
    fails,        \* history: invocations of each item that returned an error
    returned,     \* history: what the latest invocation of each item returned
    watched,      \* history: the item followed through the cancellation (0: none)
    atCancel,     \* history: the watched worker's Phase when ctx was cancelled
    callsAtCancel, \* history: calls[watched] when ctx was cancelled
    blockedAtCancel, \* history: the watched worker was blocked on the semaphore then
    topErr,       \* the error ProcessServices returns ("pending" until it returns)
    \* A call of CalculateStatistics (<<>> when there is none):
    \* [results: the argument, stats: the Statistics returned (<<>> before
    \* the return), pc: "called" or "returned"]
    stat,
    \* A call of EnhancedConfig.MergeWithEnvironment (<<>> when there is none):
    \* [env: the process environment, variable name -> value ("" if unset),
    \* c: the receiver, c0: the receiver as it was before the call,
    \* pc: "called" or "returned"]
    merge,
    \* A call of Deployer.DeployService (<<>> when there is none):
    \* [insp, targetCluster, newServiceName, dryRun: the arguments,
    \* pc: "called", "registering" (inside client.RegisterTaskDefinition),
    \* "creating" (inside client.CreateService), "returned" or "panicked",
    \* api: the ECS API calls made so far, in order, answer: what
    \* RegisterTaskDefinition answered (<<>> before it has), taskDefArn: what
    \* CloneTaskDefinition returned, result, err: what DeployService returned]
    deploy,
    \* A run of the batch command, runBatch (<<>> when there is none):
    \* [loggerOk, file, flags, env, services, dryRun: what it is run with,
    \* c: enhancedConfig (<<>> while nil), flagged: enhancedConfig as the file
    \* or the defaults and the flags left it, log: the steps taken,
    \* executor: the batch.Config BatchProcessor was made with (<<>> if none),
    \* err: the kind of error returned ("" for nil), pc]
    cli

statVars == <<stat>>
mergeVars == <<merge>>
deployVars == <<deploy>>
cliVars == <<cli>>
\* Everything that is not state of ProcessServices.
auxVars == <<statVars, mergeVars, deployVars, cliVars>>

vars == <<cfg, services, cancelled, mainPc, nextIdx, pc, sem, wg, results, bar,
          n, lastErr, doErr, calls, fails, returned, watched, atCancel,
          callsAtCancel, blockedAtCancel, topErr, auxVars>>

N == Len(services)
Items == 1..N

\* ------------------------------------------------------- code fragments
\* make(chan struct{}, size) panics for a negative size.
MakeChanPanics(size) == size < 0

\* (bug variant: one send too many gets through)
CanSendOffByOne(len, cap) == len <= cap

\* A send on a buffered channel proceeds iff the buffer has room; with
\* capacity 0 it needs a receiver, and nothing ever receives from the
\* semaphore except a worker that has already sent.
CanSend(len, cap) == len < cap

\* (bug variant: the deferred receive is missing, the slot is never given back)
ReceiveNone(len) == len

\* <-semaphore takes one token out of the buffer.
ReceiveOne(len) == len - 1

\* (bug variant: retry.Context(ctx) is not passed, retry.Do ignores ctx)
ContextNeverDone(ctxCancelled) == FALSE

\* retry.Context(ctx): config.context.Err() != nil, <-config.context.Done()
ContextDone(ctxCancelled) == ctxCancelled

\* A uint is 64 bits wide.  Its values are written in base 2^16, most
\* significant digit first, all 2^64 of them.
LimbBase == 65536

\* The conversion uint(x) of an int x, for |x| < 2^16: x modulo 2^64.
Uint64(x) ==
    IF x >= 0
    THEN <<0, 0, 0, x>>
    ELSE <<LimbBase - 1, LimbBase - 1, LimbBase - 1, LimbBase + x>>

\* u - 1 in uint arithmetic (0 - 1 wraps around to 2^64 - 1).
UintDec(u) ==
    IF u[4] > 0 THEN <<u[1], u[2], u[3], u[4] - 1>>
    ELSE IF u[3] > 0 THEN <<u[1], u[2], u[3] - 1, LimbBase - 1>>
    ELSE IF u[2] > 0 THEN <<u[1], u[2] - 1, LimbBase - 1, LimbBase - 1>>
    ELSE IF u[1] > 0 THEN <<u[1] - 1, LimbBase - 1, LimbBase - 1, LimbBase - 1>>
    ELSE <<LimbBase - 1, LimbBase - 1, LimbBase - 1, LimbBase - 1>>

\* (bug variant: a negative RetryAttempts counts as no retry)
AttemptBudgetClamped(retryAttempts) ==
    IF retryAttempts < 0 THEN Uint64(1) ELSE Uint64(retryAttempts + 1)

\* retry.Attempts(uint(bp.config.RetryAttempts+1))
AttemptBudget(retryAttempts) == Uint64(retryAttempts + 1)

\* retry.Do: if config.attempts == 0, the loop that retries until success.
Unlimited(attempts) == attempts = Uint64(0)

\* retry.Do: "if this is last attempt - don't wait": n == config.attempts-1
IsLastAttempt(k, attempts) == Uint64(k) = UintDec(attempts)

\* The Unit-of-Work invocations of one item that the model follows: one
\* more than any budget 1 + RetryAttempts with RetryAttempts in 0..MaxRetry.
CallCap == MaxRetry + 2

\* (bug variant: only the first error is kept)
RecordErrFirst(prev, err) == IF prev = Nil THEN err ELSE prev

\* lastErr = err
RecordErr(prev, err) == err

\* (bug variant: the goroutine uses the shared loop variable, which has
\* reached the last index by the time it stores)
ResultIndexCaptured(index) == N

\* results[index] = result
ResultIndex(index) == index

\* (bug variant: lastErr is copied into the result on success as well)
BuildResultKeepErr(serviceName, err, lastE) ==
    <<[ServiceName |-> serviceName, Success |-> (err = Nil), Error |-> lastE]>>

\* The ProcessResult built from retry.Do's return value.
BuildResult(serviceName, err, lastE) ==
    IF err # Nil
    THEN <<[ServiceName |-> serviceName, Success |-> FALSE, Error |-> lastE]>>
    ELSE <<[ServiceName |-> serviceName, Success |-> TRUE, Error |-> Nil]>>

\* (bug variant: the wait is missing)
WaitNothing(counter) == TRUE

\* wg.Wait() returns when the counter is zero.
WaitDone(counter) == counter = 0

\* (bug variant: the tick is missing)
BarAddNone(count) == count

\* bar.Add(1)
BarAdd(count) == count + 1

\* Where a worker stands, as far as a cancellation is concerned: still
\* before retry.Do's context check ("waiting": not launched, or blocked on the
\* semaphore, or just past it), inside Process ("running"), in the retry
\* delay ("delay"), back from retry.Do with the result not yet stored
\* ("finished"), or with results[index] written ("stored").
Phase(p) ==
    CASE p \in {"unspawned", "acquire", "doStart"} -> "waiting"
      [] p = "running" -> "running"
      [] p = "delay" -> "delay"
      [] p = "store" -> "finished"
      [] OTHER -> "stored"

\* Unit-of-Work invocations of item i started and not yet returned.
InFlight == {i \in Items : pc[i] = "running"}

\* ProcessServices has not returned yet.
Pending == [kind |-> "pending", item |-> 0, attempt |-> 0]

\* (bug variant: an item's failure is handed up as the batch's error)
TopLevelErrorFromItems(res) ==
    IF \E i \in DOMAIN res : res[i] # NilResult /\ ~res[i][1].Success
    THEN RetryErr
    ELSE Nil

\* return results, nil
TopLevelError(res) == Nil

\* ----------------------------------------------- Statistics: the values
\* A Go slice is nil or not, and has its elements.
NilSlice == [isNil |-> TRUE, elems |-> <<>>]
\* make([]string, 0)
MakeSlice == [isNil |-> FALSE, elems |-> <<>>]
\* append(s, x)
AppendSlice(s, x) == [isNil |-> FALSE, elems |-> Append(s.elems, x)]

\* The zero Statistics.
ZeroStatistics ==
    [TotalServices |-> 0, SuccessfulCount |-> 0, FailedCount |-> 0,
     TotalDuration |-> 0, AverageDuration |-> 0, FailedServices |-> NilSlice]

\* CalculateStatistics is not being called.
StatIdle == stat = <<>>

\* ------------------------------------------- EnhancedConfig: the values
\* The zero EnhancedConfig (Config, Logging and Batch flattened).
ZeroConfig ==
    [Region |-> "", Profile |-> "", OutputFormat |-> "",
     LogLevel |-> "", LogFormat |-> "", LogFilename |-> "",
     LogMaxSize |-> 0, LogMaxAge |-> 0, LogMaxBackups |-> 0,
     MaxConcurrency |-> 0, RetryAttempts |-> 0, RetryDelay |-> 0,
     ShowProgress |-> FALSE]

\* The configuration fields.
Fields == DOMAIN ZeroConfig

\* The environment variable that overrides each field.
EnvVar(f) ==
    CASE f = "Region" -> "PHANTOM_ECS_REGION"
      [] f = "Profile" -> "PHANTOM_ECS_PROFILE"
      [] f = "OutputFormat" -> "PHANTOM_ECS_OUTPUT_FORMAT"
      [] f = "LogLevel" -> "PHANTOM_ECS_LOG_LEVEL"
      [] f = "LogFormat" -> "PHANTOM_ECS_LOG_FORMAT"
      [] f = "LogFilename" -> "PHANTOM_ECS_LOG_FILE"
      [] f = "LogMaxSize" -> "PHANTOM_ECS_LOG_MAX_SIZE"
      [] f = "LogMaxAge" -> "PHANTOM_ECS_LOG_MAX_AGE"
      [] f = "LogMaxBackups" -> "PHANTOM_ECS_LOG_MAX_BACKUPS"
      [] f = "MaxConcurrency" -> "PHANTOM_ECS_BATCH_MAX_CONCURRENCY"
      [] f = "RetryAttempts" -> "PHANTOM_ECS_BATCH_RETRY_ATTEMPTS"
      [] f = "RetryDelay" -> "PHANTOM_ECS_BATCH_RETRY_DELAY"
      [] f = "ShowProgress" -> "PHANTOM_ECS_BATCH_SHOW_PROGRESS"

EnvNames == {EnvVar(f) : f \in Fields}

\* MergeWithEnvironment is not being called.
MergeIdle == merge = <<>>

\* DeployService is not being called.
DeployIdle == deploy = <<>>

\* The batch command is not running.
CliIdle == cli = <<>>

\* ------------------------------------------------------------------ init
\* Nothing has run yet.
Fresh ==
    /\ cancelled = FALSE
    /\ mainPc = "start"
    /\ nextIdx = 1
    /\ pc = [i \in Items |-> "unspawned"]
    /\ sem = 0
    /\ wg = 0
    /\ results = <<>>
    /\ bar = [made |-> FALSE, count |-> 0, finished |-> FALSE]
    /\ n = [i \in Items |-> 0]
    /\ lastErr = [i \in Items |-> Nil]
    /\ doErr = [i \in Items |-> Nil]
    /\ calls = [i \in Items |-> 0]
    /\ fails = [i \in Items |-> 0]
    /\ returned = [i \in Items |-> Nil]
    /\ watched = 0
    /\ atCancel = "none"
    /\ callsAtCancel = 0
    /\ blockedAtCancel = FALSE
    /\ topErr = Pending
    /\ StatIdle
    /\ MergeIdle
    /\ DeployIdle
    /\ CliIdle

Init ==
    /\ cfg \in Configs
    /\ services \in Inputs
    /\ Fresh

\* ---------------------------------------------------------- the context
\* The caller cancels ctx (or its deadline passes), at any moment up to the
\* return of ProcessServices.  The history variables follow one item, any
\* one, through the cancellation: where its worker stood and how many
\* invocations it had started.
Cancel ==
    /\ ~cancelled
    /\ mainPc \notin {"returned", "panicked"}
    /\ cancelled' = TRUE
    /\ IF Items = {}
       THEN UNCHANGED <<watched, atCancel, callsAtCancel, blockedAtCancel>>
       ELSE \E w \in Items :
               /\ watched' = w
               /\ atCancel' = Phase(pc[w])
               /\ callsAtCancel' = calls[w]
               /\ blockedAtCancel' =
                      (pc[w] = "acquire" /\ ~CanSend(sem, cfg.MaxConcurrency))
    /\ UNCHANGED <<cfg, services, mainPc, nextIdx, pc, sem, wg, results, bar,
                   n, lastErr, doErr, calls, fails, returned, topErr, auxVars>>

\* The same cancellation with no item followed.
CancelUnobserved ==
    /\ ~cancelled
    /\ mainPc \notin {"returned", "panicked"}
    /\ cancelled' = TRUE
    /\ UNCHANGED <<cfg, services, mainPc, nextIdx, pc, sem, wg, results, bar,
                   n, lastErr, doErr, calls, fails, returned, watched,
                   atCancel, callsAtCancel,
                   blockedAtCancel, topErr, auxVars>>

\* ------------------------------------------------- ProcessServices (main)
\* results := make(...); the progress bar; semaphore := make(chan, MaxConcurrency)
Start ==
    /\ mainPc = "start"
    /\ results' = [i \in Items |-> NilResult]
    /\ bar' = [bar EXCEPT !.made = cfg.ShowProgress]
    /\ mainPc' = IF MakeChanPanics(cfg.MaxConcurrency) THEN "panicked" ELSE "spawn"
    /\ UNCHANGED <<cfg, services, cancelled, nextIdx, pc, sem, wg, n, lastErr,
                   doErr, calls, fails, returned, watched, atCancel, callsAtCancel,
                   blockedAtCancel, topErr, auxVars>>

\* One iteration of the for-range: wg.Add(1); go func(index, serviceName)
Launch ==
    /\ mainPc = "spawn"
    /\ nextIdx <= N
    /\ wg' = wg + 1
    /\ pc' = [pc EXCEPT ![nextIdx] = "acquire"]
    /\ nextIdx' = nextIdx + 1
    /\ UNCHANGED <<cfg, services, cancelled, mainPc, sem, results, bar, n,
                   lastErr, doErr, calls, fails, returned, watched, atCancel, callsAtCancel,
                   blockedAtCancel, topErr, auxVars>>

\* The for-range is over.
LaunchDone ==
    /\ mainPc = "spawn"
    /\ nextIdx > N
    /\ mainPc' = "wait"
    /\ UNCHANGED <<cfg, services, cancelled, nextIdx, pc, sem, wg, results, bar,
                   n, lastErr, doErr, calls, fails, returned, watched, atCancel, callsAtCancel,
                   blockedAtCancel, topErr, auxVars>>

\* wg.Wait(); bar.Finish(); return results, nil
Return ==
    /\ mainPc = "wait"
    /\ WaitDone(wg)
    /\ bar' = [bar EXCEPT !.finished = bar.made]
    /\ topErr' = TopLevelError(results)
    /\ mainPc' = "returned"
    /\ UNCHANGED <<cfg, services, cancelled, nextIdx, pc, sem, wg, results, n,
                   lastErr, doErr, calls, fails, returned, watched, atCancel, callsAtCancel,
                   blockedAtCancel, auxVars>>

\* ------------------------------------------------------------ a worker
\* semaphore <- struct{}{}
Acquire(i) ==
    /\ pc[i] = "acquire"
    /\ CanSend(sem, cfg.MaxConcurrency)
    /\ sem' = sem + 1
    /\ pc' = [pc EXCEPT ![i] = "doStart"]
    /\ UNCHANGED <<cfg, services, cancelled, mainPc, nextIdx, wg, results, bar,
                   n, lastErr, doErr, calls, fails, returned, watched, atCancel, callsAtCancel,
                   blockedAtCancel, topErr, auxVars>>

\* retry.Do's entry: if err := config.context.Err(); err != nil { return err };
\* otherwise the first attempt: retryableFunc() enters
\* bp.processor.Process(ctx, serviceName).
DoStart(i) ==
    /\ pc[i] = "doStart"
    /\ IF ContextDone(cancelled)
       THEN /\ doErr' = [doErr EXCEPT ![i] = CtxErr]
            /\ pc' = [pc EXCEPT ![i] = "store"]
            /\ calls' = calls
       ELSE /\ doErr' = doErr
            /\ pc' = [pc EXCEPT ![i] = "running"]
            /\ calls' = [calls EXCEPT ![i] = @ + 1]
    /\ UNCHANGED <<cfg, services, cancelled, mainPc, nextIdx, sem, wg, results,
                   bar, n, lastErr, fails, returned, watched, atCancel, callsAtCancel,
                   blockedAtCancel, topErr, auxVars>>

\* Process returned nil: retry.Do returns nil.
UowSucceeds(i) ==
    /\ pc[i] = "running"
    /\ returned' = [returned EXCEPT ![i] = Nil]
    /\ doErr' = [doErr EXCEPT ![i] = Nil]
    /\ pc' = [pc EXCEPT ![i] = "store"]
    /\ UNCHANGED <<cfg, services, cancelled, mainPc, nextIdx, sem, wg, results,
                   bar, n, lastErr, calls, fails, watched, atCancel, callsAtCancel,
                   blockedAtCancel, topErr, auxVars>>

\* Process returned the error e: lastErr = err; retry.Do logs it and either
\* gives up (last attempt) or counts the retry and waits out the delay.
FailWith(i, e) ==
    /\ returned' = [returned EXCEPT ![i] = e]
    /\ fails' = [fails EXCEPT ![i] = @ + 1]
    /\ lastErr' = [lastErr EXCEPT ![i] = RecordErr(@, e)]
    /\ IF /\ ~Unlimited(AttemptBudget(cfg.RetryAttempts))
          /\ IsLastAttempt(n[i], AttemptBudget(cfg.RetryAttempts))
       THEN /\ doErr' = [doErr EXCEPT ![i] = RetryErr]
            /\ pc' = [pc EXCEPT ![i] = "store"]
            /\ n' = n
       ELSE /\ n' = [n EXCEPT ![i] = @ + 1]
            /\ pc' = [pc EXCEPT ![i] = "delay"]
            /\ doErr' = doErr
    /\ UNCHANGED <<cfg, services, cancelled, mainPc, nextIdx, sem, wg, results,
                   bar, calls, watched, atCancel, callsAtCancel,
                   blockedAtCancel, topErr, auxVars>>

\* Process failed with an error of its own.
UowFails(i) ==
    /\ pc[i] = "running"
    /\ FailWith(i, UowErr(i, calls[i]))

\* select: case <-config.timer.After(delay): the delay is over and the loop
\* calls retryableFunc() again.
DelayElapsed(i) ==
    /\ pc[i] = "delay"
    /\ calls[i] < CallCap
    /\ pc' = [pc EXCEPT ![i] = "running"]
    /\ calls' = [calls EXCEPT ![i] = @ + 1]
    /\ UNCHANGED <<cfg, services, cancelled, mainPc, nextIdx, sem, wg, results,
                   bar, n, lastErr, doErr, fails, returned, watched, atCancel, callsAtCancel,
                   blockedAtCancel, topErr, auxVars>>

\* select: case <-config.context.Done(): retry.Do returns the error log with
\* the context's error appended.
DelayCancelled(i) ==
    /\ pc[i] = "delay"
    /\ ContextDone(cancelled)
    /\ doErr' = [doErr EXCEPT ![i] =
                    IF Unlimited(AttemptBudget(cfg.RetryAttempts))
                    THEN CtxErr ELSE RetryErr]
    /\ pc' = [pc EXCEPT ![i] = "store"]
    /\ UNCHANGED <<cfg, services, cancelled, mainPc, nextIdx, sem, wg, results,
                   bar, n, lastErr, calls, fails, returned, watched, atCancel, callsAtCancel,
                   blockedAtCancel, topErr, auxVars>>

\* result := bp.processServiceWithRetry(...) returns; results[index] = result
Store(i) ==
    /\ pc[i] = "store"
    /\ results' = [results EXCEPT ![ResultIndex(i)] =
                      BuildResult(services[i], doErr[i], lastErr[i])]
    /\ pc' = [pc EXCEPT ![i] = IF bar.made THEN "tick" ELSE "release"]
    /\ UNCHANGED <<cfg, services, cancelled, mainPc, nextIdx, sem, wg, bar, n,
                   lastErr, doErr, calls, fails, returned, watched, atCancel, callsAtCancel,
                   blockedAtCancel, topErr, auxVars>>

\* if bar != nil { bar.Add(1) }
Tick(i) ==
    /\ pc[i] = "tick"
    /\ bar' = [bar EXCEPT !.count = BarAdd(@)]
    /\ pc' = [pc EXCEPT ![i] = "release"]
    /\ UNCHANGED <<cfg, services, cancelled, mainPc, nextIdx, sem, wg, results,
                   n, lastErr, doErr, calls, fails, returned, watched, atCancel, callsAtCancel,
                   blockedAtCancel, topErr, auxVars>>

\* defer func() { <-semaphore }()
Release(i) ==
    /\ pc[i] = "release"
    /\ sem' = ReceiveOne(sem)
    /\ pc' = [pc EXCEPT ![i] = "wgDone"]
    /\ UNCHANGED <<cfg, services, cancelled, mainPc, nextIdx, wg, results, bar,
                   n, lastErr, doErr, calls, fails, returned, watched, atCancel, callsAtCancel,
                   blockedAtCancel, topErr, auxVars>>

\* defer wg.Done()
Done(i) ==
    /\ pc[i] = "wgDone"
    /\ wg' = wg - 1
    /\ pc' = [pc EXCEPT ![i] = "exited"]
    /\ UNCHANGED <<cfg, services, cancelled, mainPc, nextIdx, sem, results, bar,
                   n, lastErr, doErr, calls, fails, returned, watched, atCancel, callsAtCancel,
                   blockedAtCancel, topErr, auxVars>>

Worker(i) ==
    \/ Acquire(i)
    \/ DoStart(i)
    \/ UowSucceeds(i)
    \/ UowFails(i)
    \/ DelayElapsed(i)
    \/ DelayCancelled(i)
    \/ Store(i)
    \/ Tick(i)
    \/ Release(i)
    \/ Done(i)

Main == Start \/ Launch \/ LaunchDone \/ Return

Next ==
    \/ Cancel
    \/ Main
    \/ \E i \in Items : Worker(i)

Spec == Init /\ [][Next]_vars

\* One item under a BatchProcessor whose Config was not validated:
\* RetryAttempts may be negative.
BudgetConfigs ==
    [MaxConcurrency : {1},
     RetryAttempts  : (-MaxNegRetry)..MaxRetry,
     ShowProgress   : BOOLEAN]

BudgetInit ==
    /\ cfg \in BudgetConfigs
    /\ services = <<"a">>
    /\ Fresh

BudgetSpec == BudgetInit /\ [][Next]_vars

\* Fair scheduling: every goroutine that can take a step eventually takes
\* one, and every Unit-of-Work invocation returns.  Whether and when the
\* context is cancelled is up to the caller.
LiveNext ==
    \/ CancelUnobserved
    \/ Main
    \/ \E i \in Items : Worker(i)

LiveSpec ==
    /\ Init
    /\ [][LiveNext]_vars
    /\ WF_vars(Main)
    /\ \A i \in 1..MaxItems : WF_vars(i \in Items /\ Worker(i))

\* The same runs with no fairness assumed and no item followed through the
\* cancellation: for what is claimed of the program's own state.
PlainSpec == Init /\ [][LiveNext]_vars

\* ================================================== CalculateStatistics
\* No batch is running: the variables of ProcessServices at rest.
batchVars == <<cfg, services, cancelled, mainPc, nextIdx, pc, sem, wg, results,
               bar, n, lastErr, doErr, calls, fails, returned, watched,
               atCancel, callsAtCancel, blockedAtCancel, topErr>>

BatchIdle ==
    /\ cfg = [MaxConcurrency |-> 1, RetryAttempts |-> 0, ShowProgress |-> FALSE]
    /\ services = <<>>
    /\ cancelled = FALSE
    /\ mainPc = "idle"
    /\ nextIdx = 1
    /\ pc = <<>>
    /\ sem = 0
    /\ wg = 0
    /\ results = <<>>
    /\ bar = [made |-> FALSE, count |-> 0, finished |-> FALSE]
    /\ n = <<>>
    /\ lastErr = <<>>
    /\ doErr = <<>>
    /\ calls = <<>>
    /\ fails = <<>>
    /\ returned = <<>>
    /\ watched = 0
    /\ atCancel = "none"
    /\ callsAtCancel = 0
    /\ blockedAtCancel = FALSE
    /\ topErr = Pending

\* The ProcessResults CalculateStatistics is given, by the fields it reads.
\* Every entry points to a ProcessResult, as in what ProcessServices
\* returns, and a Duration is an elapsed time: never negative, and far
\* from the int64 range.
ResultEntries ==
    [ServiceName : {"a", "b"}, Success : BOOLEAN, Duration : 0..MaxDuration]

ResultSeqs == UNION {[1..l -> ResultEntries] : l \in 0..MaxStatLen}

\* stats := &Statistics{TotalServices: len(results),
\*                       FailedServices: make([]string, 0)}
NewStatistics(res) ==
    [ZeroStatistics EXCEPT !.TotalServices = Len(res),
                           !.FailedServices = MakeSlice]

\* (bug variant: only the durations of successful results are added)
AddDurationIfSuccess(total, result) ==
    IF result.Success THEN total + result.Duration ELSE total

\* totalDuration += result.Duration
AddDuration(total, result) == total + result.Duration

\* (bug variant: a key already listed is not listed again)
FailedListOnce(list, result) ==
    IF \E k \in DOMAIN list.elems : list.elems[k] = result.ServiceName
    THEN list
    ELSE AppendSlice(list, result.ServiceName)

\* stats.FailedServices = append(stats.FailedServices, result.ServiceName)
FailedList(list, result) == AppendSlice(list, result.ServiceName)

\* (bug variant: FailedCount++ is missing)
TallyNoFailedCount(st, result) ==
    IF result.Success
    THEN [st EXCEPT !.SuccessfulCount = @ + 1]
    ELSE [st EXCEPT !.FailedServices = FailedList(@, result)]

\* The if/else of the loop body.
Tally(st, result) ==
    IF result.Success
    THEN [st EXCEPT !.SuccessfulCount = @ + 1]
    ELSE [st EXCEPT !.FailedCount = @ + 1,
                    !.FailedServices = FailedList(@, result)]

\* if len(results) > 0 { ... }
Divides(len) == len > 0

\* totalDuration / time.Duration(len(results)): Go's integer division; the
\* operands are never negative here, so it is \div.
Quotient(total, len) == total \div len

StatInit ==
    /\ BatchIdle
    /\ MergeIdle
    /\ DeployIdle
    /\ CliIdle
    /\ \E r \in ResultSeqs :
        stat = [results |-> r, stats |-> <<>>, totalDuration |-> 0,
                idx |-> 0, divided |-> FALSE, pc |-> "called"]

\* Lines 177-182: the Statistics is allocated, totalDuration is zero.
StatEnter ==
    /\ ~StatIdle
    /\ stat.pc = "called"
    /\ stat' = [stat EXCEPT !.stats = <<NewStatistics(stat.results)>>,
                            !.totalDuration = 0,
                            !.idx = 1,
                            !.pc = "loop"]
    /\ UNCHANGED <<batchVars, mergeVars, deployVars, cliVars>>

\* One iteration of the for-range over results.
StatLoop ==
    /\ ~StatIdle
    /\ stat.pc = "loop"
    /\ stat.idx <= Len(stat.results)
    /\ LET result == stat.results[stat.idx] IN
        stat' = [stat EXCEPT
                    !.totalDuration = AddDuration(@, result),
                    !.stats = <<Tally(stat.stats[1], result)>>,
                    !.idx = @ + 1]
    /\ UNCHANGED <<batchVars, mergeVars, deployVars, cliVars>>

\* Lines 194-199: the totals are stored and stats is returned.
StatFinish ==
    /\ ~StatIdle
    /\ stat.pc = "loop"
    /\ stat.idx > Len(stat.results)
    /\ LET len == Len(stat.results)
           st == [stat.stats[1] EXCEPT !.TotalDuration = stat.totalDuration]
       IN
        stat' = [stat EXCEPT
                    !.stats = IF Divides(len)
                              THEN <<[st EXCEPT !.AverageDuration =
                                        Quotient(stat.totalDuration, len)]>>
                              ELSE <<st>>,
                    !.divided = Divides(len),
                    !.pc = "returned"]
    /\ UNCHANGED <<batchVars, mergeVars, deployVars, cliVars>>

StatNext == StatEnter \/ StatLoop \/ StatFinish

StatSpec == StatInit /\ [][StatNext]_vars

\* ================================================ MergeWithEnvironment
\* GetDefaultEnhancedConfig (RetryDelay in seconds).
DefaultEnhancedConfig ==
    [Region |-> "us-east-1", Profile |-> "", OutputFormat |-> "table",
     LogLevel |-> "info", LogFormat |-> "text", LogFilename |-> "",
     LogMaxSize |-> 100, LogMaxAge |-> 30, LogMaxBackups |-> 10,
     MaxConcurrency |-> 3, RetryAttempts |-> 3, RetryDelay |-> 2,
     ShowProgress |-> TRUE]

\* The receivers: the default configuration and the zero one.
InitialConfigs == {DefaultEnhancedConfig, ZeroConfig}

\* What a set variable may hold: numerals, a word, a boolean, a duration.
EnvValues == {"0", "2", "-1", "x", "true", "1s"}

\* The sets of variables that may be set together: at most MaxEnvSet.
SetChoices == {T \in SUBSET EnvNames : Cardinality(T) <= MaxEnvSet}

\* The environment in which the variables of S are set, to the values g
\* gives them, and no other is.
EnvWith(S, g) == [v \in EnvNames |-> IF v \in S THEN g[v] ELSE ""]

\* os.Getenv: the value, "" if the variable is not set.
Getenv(env, key) == env[key]

\* strconv.Atoi on the values above: <<value, err == nil>>.
Atoi(s) ==
    CASE s = "0" -> <<0, TRUE>>
      [] s = "2" -> <<2, TRUE>>
      [] s = "-1" -> <<-1, TRUE>>
      [] OTHER -> <<0, FALSE>>

\* strconv.ParseBool on the values above.
ParseBool(s) ==
    CASE s = "true" -> <<TRUE, TRUE>>
      [] s = "0" -> <<FALSE, TRUE>>
      [] OTHER -> <<FALSE, FALSE>>

\* time.ParseDuration on the values above, in seconds: a number needs a
\* unit, except 0.
ParseDuration(s) ==
    CASE s = "1s" -> <<1, TRUE>>
      [] s = "0" -> <<0, TRUE>>
      [] OTHER -> <<0, FALSE>>

getEnvInt(env, key) ==
    LET value == Getenv(env, key) IN
    IF value # "" /\ Atoi(value)[2] THEN Atoi(value)[1] ELSE 0

\* A *bool: <<>> is nil, <<b>> points to b.
getEnvBool(env, key) ==
    LET value == Getenv(env, key) IN
    IF value # "" /\ ParseBool(value)[2] THEN <<ParseBool(value)[1]>> ELSE <<>>

getEnvDuration(env, key) ==
    LET value == Getenv(env, key) IN
    IF value # "" /\ ParseDuration(value)[2] THEN ParseDuration(value)[1] ELSE 0

\* The receiver after c.MergeWithEnvironment() under environment env.
MergeWithEnvironment(c, env) ==
    LET region == Getenv(env, "PHANTOM_ECS_REGION")
        c1 == IF region # "" THEN [c EXCEPT !.Region = region] ELSE c
        profile == Getenv(env, "PHANTOM_ECS_PROFILE")
        c2 == IF profile # "" THEN [c1 EXCEPT !.Profile = profile] ELSE c1
        format == Getenv(env, "PHANTOM_ECS_OUTPUT_FORMAT")
        c3 == IF format # "" THEN [c2 EXCEPT !.OutputFormat = format] ELSE c2
        level == Getenv(env, "PHANTOM_ECS_LOG_LEVEL")
        c4 == IF level # "" THEN [c3 EXCEPT !.LogLevel = level] ELSE c3
        logFormat == Getenv(env, "PHANTOM_ECS_LOG_FORMAT")
        c5 == IF logFormat # "" THEN [c4 EXCEPT !.LogFormat = logFormat] ELSE c4
        filename == Getenv(env, "PHANTOM_ECS_LOG_FILE")
        c6 == IF filename # "" THEN [c5 EXCEPT !.LogFilename = filename] ELSE c5
        maxSize == getEnvInt(env, "PHANTOM_ECS_LOG_MAX_SIZE")
        c7 == IF maxSize > 0 THEN [c6 EXCEPT !.LogMaxSize = maxSize] ELSE c6
        maxAge == getEnvInt(env, "PHANTOM_ECS_LOG_MAX_AGE")
        c8 == IF maxAge > 0 THEN [c7 EXCEPT !.LogMaxAge = maxAge] ELSE c7
        maxBackups == getEnvInt(env, "PHANTOM_ECS_LOG_MAX_BACKUPS")
        c9 == IF maxBackups > 0
              THEN [c8 EXCEPT !.LogMaxBackups = maxBackups] ELSE c8
        maxConcurrency == getEnvInt(env, "PHANTOM_ECS_BATCH_MAX_CONCURRENCY")
        c10 == IF maxConcurrency > 0
               THEN [c9 EXCEPT !.MaxConcurrency = maxConcurrency] ELSE c9
        retryAttempts == getEnvInt(env, "PHANTOM_ECS_BATCH_RETRY_ATTEMPTS")
        c11 == IF retryAttempts >= 0
               THEN [c10 EXCEPT !.RetryAttempts = retryAttempts] ELSE c10
        retryDelay == getEnvDuration(env, "PHANTOM_ECS_BATCH_RETRY_DELAY")
        c12 == IF retryDelay > 0
               THEN [c11 EXCEPT !.RetryDelay = retryDelay] ELSE c11
        showProgress == getEnvBool(env, "PHANTOM_ECS_BATCH_SHOW_PROGRESS")
        c13 == IF showProgress # <<>>
               THEN [c12 EXCEPT !.ShowProgress = showProgress[1]] ELSE c12
    IN  c13

MergeInit ==
    /\ BatchIdle
    /\ StatIdle
    /\ DeployIdle
    /\ CliIdle
    /\ \E S \in SetChoices, c \in InitialConfigs :
        \E g \in [S -> EnvValues] :
            merge = [env |-> EnvWith(S, g), c |-> c, c0 |-> c, pc |-> "called"]

\* c.MergeWithEnvironment()
Merge ==
    /\ ~MergeIdle
    /\ merge.pc = "called"
    /\ merge' = [merge EXCEPT !.c = MergeWithEnvironment(merge.c, merge.env),
                              !.pc = "returned"]
    /\ UNCHANGED <<batchVars, statVars, deployVars, cliVars>>

MergeNext == Merge

MergeSpec == MergeInit /\ [][MergeNext]_vars

\* ======================================================== DeployService
\* The InspectionResults given: a nil pointer (<<>>) or the fields that
\* DeployService and ValidateDeployment read of a source service "svc" in
\* cluster "c1".
Inspections ==
    {<<>>} \cup
    {<<[ServiceStatus |-> ss, TaskDefStatus |-> ts, ServiceName |-> "svc",
        ClusterName |-> "c1", Family |-> "fam"]>> :
        ss \in {"ACTIVE", "DRAINING"}, ts \in {"ACTIVE", "INACTIVE"}}

TargetClusters == {"", "c1", "c2"}
NewServiceNames == {"", "svc", "new"}

\* What client.RegisterTaskDefinition may answer: an error, an output whose
\* TaskDefinition is nil, an output whose TaskDefinitionArn is nil, or an
\* output with an ARN (a *string, be it to the empty string).
RegisterOutcomes ==
    {[err |-> "register failed", taskDef |-> FALSE, arn |-> <<>>],
     [err |-> "", taskDef |-> FALSE, arn |-> <<>>],
     [err |-> "", taskDef |-> TRUE, arn |-> <<>>],
     [err |-> "", taskDef |-> TRUE, arn |-> <<"">>],
     [err |-> "", taskDef |-> TRUE, arn |-> <<"arn:fam-copy:1">>]}

\* What client.CreateService may answer: the error, "" for nil.
CreateOutcomes == {"", "create failed"}

\* ValidateDeployment: the error message, "" for nil.
ValidateDeployment(insp, targetCluster, newServiceName) ==
    IF insp.ServiceStatus # "ACTIVE" THEN "source service is not active"
    ELSE IF insp.TaskDefStatus # "ACTIVE"
         THEN "source task definition is not active"
    ELSE IF targetCluster = "" THEN "target cluster name cannot be empty"
    ELSE IF newServiceName = "" THEN "new service name cannot be empty"
    ELSE IF insp.ServiceName = newServiceName /\ insp.ClusterName = targetCluster
         THEN "cannot deploy to the same service name in the same cluster"
    ELSE ""

\* (bug variant: the dry-run branch is missing)
CallsApiAlways(dryRun) == TRUE

\* if dryRun { ... return } : the API is used only past this branch.
CallsApi(dryRun) == ~dryRun

\* The planned operations of a dry run (each a format and its arguments).
DryRunOperations(family, newServiceName, targetCluster) ==
    <<<<"Register task definition: %s-copy", family>>,
      <<"Create service: %s in cluster %s", newServiceName, targetCluster>>>>

\* The zero DeploymentResult; Error is a message and what it wraps.
ZeroDeploymentResult ==
    [ServiceName |-> "", ClusterName |-> "", TaskDefinitionArn |-> "",
     Success |-> FALSE, DryRun |-> FALSE, Operations |-> <<>>, Error |-> <<>>]

\* (bug variant: the error of RegisterTaskDefinition is dropped)
CloneTaskDefinitionSwallow(outcome) ==
    IF outcome.arn # <<>> THEN <<outcome.arn[1], "">> ELSE <<"", "">>

\* The tail of CloneTaskDefinition, from the answer of
\* RegisterTaskDefinition: <<ARN, error message>>.
CloneTaskDefinition(outcome) ==
    IF outcome.err # "" THEN <<"", outcome.err>>
    ELSE IF outcome.arn # <<>> THEN <<outcome.arn[1], "">>
    ELSE <<"", "failed to get task definition ARN">>

DeployInit ==
    /\ BatchIdle
    /\ StatIdle
    /\ MergeIdle
    /\ CliIdle
    /\ \E insp \in Inspections, tc \in TargetClusters,
          sn \in NewServiceNames, dry \in BOOLEAN :
        deploy = [insp |-> insp, targetCluster |-> tc, newServiceName |-> sn,
                  dryRun |-> dry, pc |-> "called", api |-> <<>>,
                  answer |-> <<>>, taskDefArn |-> "", result |-> <<>>, err |-> ""]

\* DeployService up to its first API call: validation, the dry-run branch,
\* and CloneTaskDefinition up to client.RegisterTaskDefinition.  A nil
\* inspectionResult is dereferenced by ValidateDeployment.
DeployEnter ==
    /\ ~DeployIdle
    /\ deploy.pc = "called"
    /\ IF deploy.insp = <<>>
       THEN deploy' = [deploy EXCEPT !.pc = "panicked"]
       ELSE LET insp == deploy.insp[1]
                err == ValidateDeployment(insp, deploy.targetCluster,
                                          deploy.newServiceName)
                named == [ZeroDeploymentResult EXCEPT
                             !.ServiceName = deploy.newServiceName,
                             !.ClusterName = deploy.targetCluster]
            IN  IF err # ""
                THEN deploy' = [deploy EXCEPT
                        !.result = <<[named EXCEPT !.DryRun = deploy.dryRun,
                                                   !.Error = <<err>>]>>,
                        !.err = err,
                        !.pc = "returned"]
                ELSE IF ~CallsApi(deploy.dryRun)
                THEN deploy' = [deploy EXCEPT
                        !.result = <<[named EXCEPT
                            !.Success = TRUE,
                            !.DryRun = TRUE,
                            !.Operations = DryRunOperations(insp.Family,
                                deploy.newServiceName, deploy.targetCluster)]>>,
                        !.err = "",
                        !.pc = "returned"]
                ELSE deploy' = [deploy EXCEPT
                        !.api = Append(@, "RegisterTaskDefinition"),
                        !.pc = "registering"]
    /\ UNCHANGED <<batchVars, statVars, mergeVars, cliVars>>

\* client.RegisterTaskDefinition answers; CloneTaskDefinition returns;
\* DeployService returns the failure or goes on to client.CreateService.
RegisterReturns ==
    /\ ~DeployIdle
    /\ deploy.pc = "registering"
    /\ \E outcome \in RegisterOutcomes :
        IF outcome.err = "" /\ ~outcome.taskDef
        THEN deploy' = [deploy EXCEPT !.answer = <<outcome>>,
                                      !.pc = "panicked"]
        ELSE LET cloned == CloneTaskDefinition(outcome)
                 named == [ZeroDeploymentResult EXCEPT
                              !.ServiceName = deploy.newServiceName,
                              !.ClusterName = deploy.targetCluster]
             IN  IF cloned[2] # ""
                 THEN deploy' = [deploy EXCEPT
                         !.answer = <<outcome>>,
                         !.taskDefArn = cloned[1],
                         !.result = <<[named EXCEPT !.Error =
                             <<"failed to clone task definition: %v", cloned[2]>>]>>,
                         !.err = cloned[2],
                         !.pc = "returned"]
                 ELSE deploy' = [deploy EXCEPT
                         !.answer = <<outcome>>,
                         !.taskDefArn = cloned[1],
                         !.api = Append(@, "CreateService"),
                         !.pc = "creating"]
    /\ UNCHANGED <<batchVars, statVars, mergeVars, cliVars>>

\* client.CreateService answers; DeployService returns.
CreateReturns ==
    /\ ~DeployIdle
    /\ deploy.pc = "creating"
    /\ \E err \in CreateOutcomes :
        LET named == [ZeroDeploymentResult EXCEPT
                         !.ServiceName = deploy.newServiceName,
                         !.ClusterName = deploy.targetCluster,
                         !.TaskDefinitionArn = deploy.taskDefArn]
        IN  deploy' = [deploy EXCEPT
                !.result = IF err # ""
                           THEN <<[named EXCEPT !.Error =
                                     <<"failed to create service: %v", err>>]>>
                           ELSE <<[named EXCEPT !.Success = TRUE]>>,
                !.err = err,
                !.pc = "returned"]
    /\ UNCHANGED <<batchVars, statVars, mergeVars, cliVars>>

DeployNext == DeployEnter \/ RegisterReturns \/ CreateReturns

DeploySpec == DeployInit /\ [][DeployNext]_vars

\* ============================================================= runBatch
\* The config file: none ("" for --config-file), one that cannot be loaded,
\* or the batch section of a file that can.
ConfigFiles ==
    {[given |-> FALSE, ok |-> FALSE, MaxConcurrency |-> 0, RetryAttempts |-> 0],
     [given |-> TRUE, ok |-> FALSE, MaxConcurrency |-> 0, RetryAttempts |-> 0]}
    \cup [given : {TRUE}, ok : {TRUE},
          MaxConcurrency : {-1, 0, 2}, RetryAttempts : {-1, 0, 5}]

\* The flags: <<>> when the flag was not given (cmd.Flags().Changed is
\* false), <<v>> when it was given the value v.
FlagSets ==
    [concurrency : {<<>>, <<0>>, <<1>>},
     retryCount  : {<<>>, <<-1>>, <<0>>, <<2>>},
     retryDelay  : {<<>>},
     progress    : {<<>>}]

\* What the two batch variables of the environment may hold ("": unset).
CliEnvValues == {"", "0", "2", "-1", "x"}

CliEnv(mc, ra) ==
    [v \in EnvNames |->
        IF v = "PHANTOM_ECS_BATCH_MAX_CONCURRENCY" THEN mc
        ELSE IF v = "PHANTOM_ECS_BATCH_RETRY_ATTEMPTS" THEN ra
        ELSE ""]

\* setDefaults
setDefaults(c) ==
    [c EXCEPT
        !.Region = IF @ = "" THEN "us-east-1" ELSE @,
        !.OutputFormat = IF @ = "" THEN "table" ELSE @,
        !.LogLevel = IF @ = "" THEN "info" ELSE @,
        !.LogFormat = IF @ = "" THEN "text" ELSE @,
        !.LogMaxSize = IF @ = 0 THEN 100 ELSE @,
        !.LogMaxAge = IF @ = 0 THEN 30 ELSE @,
        !.LogMaxBackups = IF @ = 0 THEN 10 ELSE @,
        !.MaxConcurrency = IF @ = 0 THEN 3 ELSE @,
        !.RetryAttempts = IF @ = 0 THEN 3 ELSE @,
        !.RetryDelay = IF @ = 0 THEN 2 ELSE @]

\* LoadFromFile of a file that can be loaded.
LoadFromFile(file) ==
    setDefaults([ZeroConfig EXCEPT !.MaxConcurrency = file.MaxConcurrency,
                                   !.RetryAttempts = file.RetryAttempts])

\* The four if cmd.Flags().Changed(...) overrides.
ApplyFlags(c, flags) ==
    LET c1 == IF flags.concurrency # <<>>
              THEN [c EXCEPT !.MaxConcurrency = flags.concurrency[1]] ELSE c
        c2 == IF flags.retryCount # <<>>
              THEN [c1 EXCEPT !.RetryAttempts = flags.retryCount[1]] ELSE c1
        c3 == IF flags.retryDelay # <<>>
              THEN [c2 EXCEPT !.RetryDelay = flags.retryDelay[1]] ELSE c2
        c4 == IF flags.progress # <<>>
              THEN [c3 EXCEPT !.ShowProgress = flags.progress[1]] ELSE c3
    IN  c4

validRegions ==
    {"us-east-1", "us-east-2", "us-west-1", "us-west-2", "af-south-1",
     "ap-east-1", "ap-south-1", "ap-northeast-3", "ap-northeast-2",
     "ap-southeast-1", "ap-southeast-2", "ap-northeast-1", "ca-central-1",
     "eu-central-1", "eu-west-1", "eu-west-2", "eu-south-1", "eu-west-3",
     "eu-north-1", "me-south-1", "sa-east-1"}

\* (bug variant: the batch section is not validated)
ValidateNoBatch(c) ==
    IF c.Region \notin validRegions THEN "invalid AWS region"
    ELSE IF c.OutputFormat \notin {"json", "yaml", "table"}
         THEN "invalid output format"
    ELSE IF c.LogLevel \notin {"debug", "info", "warn", "error"}
         THEN "invalid log level"
    ELSE IF c.LogFormat \notin {"json", "text"} THEN "invalid log format"
    ELSE ""

\* EnhancedConfig.Validate: the error, "" for nil.
Validate(c) ==
    IF c.Region \notin validRegions THEN "invalid AWS region"
    ELSE IF c.OutputFormat \notin {"json", "yaml", "table"}
         THEN "invalid output format"
    ELSE IF c.LogLevel \notin {"debug", "info", "warn", "error"}
         THEN "invalid log level"
    ELSE IF c.LogFormat \notin {"json", "text"} THEN "invalid log format"
    ELSE IF c.MaxConcurrency < 1 THEN "max concurrency must be 1 or more"
    ELSE IF c.RetryAttempts < 0 THEN "retry attempts must be 0 or more"
    ELSE ""

\* batchConfig := &batch.Config{...}
BatchConfigOf(c) ==
    [MaxConcurrency |-> c.MaxConcurrency, RetryAttempts |-> c.RetryAttempts,
     RetryDelay |-> c.RetryDelay, ShowProgress |-> c.ShowProgress]

CliInit ==
    /\ BatchIdle
    /\ StatIdle
    /\ MergeIdle
    /\ DeployIdle
    /\ \E lg \in BOOLEAN, file \in ConfigFiles, flags \in FlagSets,
          mc \in CliEnvValues, ra \in CliEnvValues,
          sv \in {<<>>, <<"a">>}, dry \in BOOLEAN :
        cli = [loggerOk |-> lg, file |-> file, flags |-> flags,
               env |-> CliEnv(mc, ra), services |-> sv, dryRun |-> dry,
               c |-> <<>>, flagged |-> <<>>, log |-> <<>>,
               executor |-> <<>>, err |-> "", pc |-> "called"]

\* The logger, the configuration from the file or the defaults, and the
\* flags over it.
CliLoad ==
    /\ ~CliIdle
    /\ cli.pc = "called"
    /\ IF ~cli.loggerOk
       THEN cli' = [cli EXCEPT !.err = "general", !.pc = "returned"]
       ELSE IF cli.file.given /\ ~cli.file.ok
       THEN cli' = [cli EXCEPT !.err = "config", !.pc = "returned",
                               !.log = Append(@, "load")]
       ELSE LET loaded == IF cli.file.given THEN LoadFromFile(cli.file)
                          ELSE DefaultEnhancedConfig
                c == ApplyFlags(loaded, cli.flags)
            IN  cli' = [cli EXCEPT !.c = <<c>>, !.flagged = <<c>>,
                                   !.log = Append(@, "load"),
                                   !.pc = "loaded"]
    /\ UNCHANGED <<batchVars, statVars, mergeVars, deployVars>>

\* enhancedConfig.MergeWithEnvironment()
CliMerge ==
    /\ ~CliIdle
    /\ cli.pc = "loaded"
    /\ cli' = [cli EXCEPT !.c = <<MergeWithEnvironment(cli.c[1], cli.env)>>,
                          !.log = Append(@, "merge"),
                          !.pc = "merged"]
    /\ UNCHANGED <<batchVars, statVars, mergeVars, deployVars>>

\* if err := enhancedConfig.Validate(); err != nil { return ... }
CliValidate ==
    /\ ~CliIdle
    /\ cli.pc = "merged"
    /\ IF Validate(cli.c[1]) # ""
       THEN cli' = [cli EXCEPT !.err = "validation",
                               !.log = Append(@, "validate"),
                               !.pc = "returned"]
       ELSE cli' = [cli EXCEPT !.log = Append(@, "validate"),
                               !.pc = "validated"]
    /\ UNCHANGED <<batchVars, statVars, mergeVars, deployVars>>

\* The service list, the dry run, and the executor: NewBatchProcessor and
\* the call of ProcessServices.
CliStart ==
    /\ ~CliIdle
    /\ cli.pc = "validated"
    /\ IF Len(cli.services) = 0
       THEN cli' = [cli EXCEPT !.err = "validation", !.pc = "returned"]
       ELSE IF cli.dryRun
       THEN cli' = [cli EXCEPT !.pc = "returned"]
       ELSE cli' = [cli EXCEPT !.executor = <<BatchConfigOf(cli.c[1])>>,
                               !.log = Append(@, "process"),
                               !.pc = "processing"]
    /\ UNCHANGED <<batchVars, statVars, mergeVars, deployVars>>

CliNext == CliLoad \/ CliMerge \/ CliValidate \/ CliStart

CliSpec == CliInit /\ [][CliNext]_vars

\* ================================================================ claims
Stored(i) == results # <<>> /\ results[i] # NilResult

\* Item i was not touched by a cancellation: ctx is not cancelled, or it was
\* cancelled only after retry.Do had returned for i.
Uncancelled(i) ==
    \/ ~cancelled
    \/ (watched = i /\ atCancel \in {"finished", "stored"})

\* A step of the program itself (not of the caller cancelling ctx).
ProgramStep == Main \/ \E i \in Items : Worker(i)

\* ---------------------------------------------------------------- C1
\* C1: when ProcessServices returns with MaxConcurrency >= 1, results has
\* exactly N entries, none is nil, and entry i carries the key services[i].
C1_ResultsAligned ==
    (mainPc = "returned" /\ cfg.MaxConcurrency >= 1) =>
        /\ Len(results) = N
        /\ \A i \in Items :
              /\ results[i] # NilResult
              /\ results[i][1].ServiceName = services[i]

\* A returned batch of at least two items, the first two with different keys
\* and different outcomes.
C1_Witness ==
    /\ mainPc = "returned"
    /\ cfg.MaxConcurrency >= 1
    /\ N >= 2
    /\ results[1][1].Success # results[2][1].Success
    /\ services[1] # services[2]

\* ---------------------------------------------------------------- C2
\* C2: with MaxConcurrency = M >= 1, at most M Unit-of-Work invocations are
\* started and not yet returned, in every reachable state.
C2_InFlightBounded ==
    cfg.MaxConcurrency >= 1 => Cardinality(InFlight) <= cfg.MaxConcurrency

\* The limit is reached while another worker is held back by the semaphore.
C2_Witness ==
    /\ cfg.MaxConcurrency >= 1
    /\ Cardinality(InFlight) = cfg.MaxConcurrency
    /\ \E i \in Items : pc[i] = "acquire"

\* ---------------------------------------------------------------- C3
\* C3: called with MaxConcurrency <= 0 and at least one item, ProcessServices
\* returns: it does not crash, and until it has returned the program can
\* always take a step (it is never blocked for good).
C3_NonPositiveConcurrencyReturns ==
    (cfg.MaxConcurrency <= 0 /\ N >= 1) =>
        /\ mainPc # "panicked"
        /\ (mainPc = "returned" \/ ENABLED ProgramStep)

\* ---------------------------------------------------------------- C4
\* C4: with MaxConcurrency >= 1 (RetryAttempts >= 0), under fair scheduling
\* and with every Unit-of-Work invocation returning, ProcessServices
\* eventually returns, cancelled or not.
C4_EventuallyReturns ==
    (cfg.MaxConcurrency >= 1) => <>(mainPc = "returned")

\* A run that returned although ctx was cancelled while a worker had not got
\* its slot yet (it never called Process) and another one was stopped in its
\* retry delay (it gave up with attempts left).
C4_Witness ==
    /\ mainPc = "returned"
    /\ cfg.MaxConcurrency >= 1
    /\ cancelled
    /\ \E i \in Items : calls[i] = 0
    /\ \E j \in Items :
          /\ doErr[j] = RetryErr
          /\ calls[j] = fails[j]
          /\ fails[j] <= cfg.RetryAttempts

\* ---------------------------------------------------------------- C5
\* C5: an item all of whose Unit-of-Work invocations failed, with
\* RetryAttempts = r and no cancellation, was invoked exactly r+1 times and
\* its result has Success = FALSE and the error of the (r+1)-th invocation.
C5_AlwaysFailing ==
    \A i \in Items :
        (Stored(i) /\ Uncancelled(i) /\ fails[i] = calls[i]) =>
            /\ calls[i] = cfg.RetryAttempts + 1
            /\ results[i][1].Success = FALSE
            /\ results[i][1].Error = UowErr(i, cfg.RetryAttempts + 1)

\* An item that failed its first attempt and its retry.
C5_Witness ==
    \E i \in Items :
        /\ Stored(i) /\ ~cancelled /\ fails[i] = calls[i]
        /\ cfg.RetryAttempts >= 1
        /\ calls[i] >= 2

\* ---------------------------------------------------------------- C6
\* C6: an item that failed k <= RetryAttempts times and whose result is
\* stored, with no cancellation, was invoked exactly k+1 times, the last
\* invocation returned nil, and its result has Success = TRUE, Error = nil.
C6_RetryAbsorbs ==
    \A i \in Items :
        (Stored(i) /\ Uncancelled(i) /\ fails[i] <= cfg.RetryAttempts) =>
            /\ calls[i] = fails[i] + 1
            /\ returned[i] = Nil
            /\ results[i][1].Success = TRUE
            /\ results[i][1].Error = Nil

\* An item that failed once and succeeded on the retry.
C6_Witness ==
    \E i \in Items :
        /\ Stored(i) /\ ~cancelled
        /\ fails[i] >= 1
        /\ results[i][1].Success

\* ---------------------------------------------------------------- C7
\* C7 (as claimed): an item that was waiting for a slot, inside Process or in
\* a retry delay when ctx was cancelled finishes with Success = FALSE.
C7_CancelledItemsFail ==
    \A i \in Items :
        (cancelled /\ watched = i /\ Stored(i)
            /\ atCancel \in {"waiting", "running", "delay"}) =>
            results[i][1].Success = FALSE

\* C7 (amended): such an item finishes with Success = FALSE unless one of its
\* invocations, in progress at the cancellation or started after it,
\* returned nil; an item still waiting for a slot always finishes with
\* Success = FALSE and is never invoked.
C7_CancelledItemsFailUnlessUowSucceeds ==
    \A i \in Items :
        (cancelled /\ watched = i /\ Stored(i)
            /\ atCancel \in {"waiting", "running", "delay"}) =>
            /\ atCancel = "waiting" =>
                  (results[i][1].Success = FALSE /\ calls[i] = 0)
            /\ results[i][1].Success = FALSE \/ returned[i] = Nil
            /\ (fails[i] = calls[i]) => results[i][1].Success = FALSE

\* An item cancelled in its retry delay that ended as a failure.
C7_Witness ==
    \E i \in Items :
        /\ cancelled /\ watched = i /\ Stored(i)
        /\ atCancel = "delay"
        /\ results[i][1].Success = FALSE

\* ---------------------------------------------------------------- C8
\* C8: an item whose first attempt had not started when ctx was cancelled
\* ends with Success = FALSE and Error = the context's cancellation error.
C8_WaitingItemsCarryCtxErr ==
    \A i \in Items :
        (cancelled /\ watched = i /\ Stored(i) /\ atCancel = "waiting") =>
            /\ results[i][1].Success = FALSE
            /\ results[i][1].Error = CtxErr

\* ---------------------------------------------------------------- C9
\* C9: an item whose worker was in the retry delay when ctx was cancelled,
\* and which gave up there, has Error = the context's cancellation error.
C9_DelayCancelledCarriesCtxErr ==
    \A i \in Items :
        (cancelled /\ watched = i /\ Stored(i) /\ atCancel = "delay"
            /\ calls[i] = callsAtCancel) =>
            results[i][1].Error = CtxErr

\* ---------------------------------------------------------------- C10
\* C10 (as claimed): an item waiting for a slot or in a retry delay when ctx
\* was cancelled has no invocation that begins after the cancellation.
C10_NoAttemptAfterCancel ==
    \A i \in Items :
        (cancelled /\ watched = i /\ atCancel \in {"waiting", "delay"}) =>
            calls[i] = callsAtCancel

\* C10 (amended): an item still waiting for a slot when ctx was cancelled is
\* never invoked; an item in its retry delay starts no attempt after the
\* cancellation once its worker has taken the ctx.Done() branch (when the
\* delay timer is ready as well, the select may take the timer branch and
\* one more attempt begins).
C10_NoAttemptAfterCancelNoticed ==
    \A i \in Items :
        (cancelled /\ watched = i) =>
            /\ atCancel = "waiting" => calls[i] = 0
            /\ (atCancel = "delay" /\ doErr[i] = RetryErr /\ fails[i] <= cfg.RetryAttempts)
                  => calls[i] = fails[i]

\* An item cancelled while blocked on the semaphore, stored without a call.
C10_Witness ==
    \E i \in Items :
        /\ cancelled /\ watched = i /\ atCancel = "waiting"
        /\ Stored(i)
        /\ calls[i] = 0


\* ---------------------------------------------------------------- C11
\* Workers between the send on the semaphore and the deferred receive.
Holding == {i \in Items : pc[i] \in {"doStart", "running", "delay", "store",
                                       "tick", "release"}}

\* C11: a worker that was blocked on the semaphore when ctx was cancelled
\* abandons the wait: it never acquires a slot.
C11_BlockedWorkerAbandonsWait ==
    \A i \in Items :
        (cancelled /\ watched = i /\ blockedAtCancel) => i \notin Holding

\* ---------------------------------------------------------------- C12
\* C12: whatever the per-item outcomes, the error ProcessServices returns is
\* nil; item failures are in the items' results only.
C12_TopLevelErrorNil ==
    mainPc = "returned" => topErr = Nil

\* A returned run with a failed item and a cancelled context.
C12_Witness ==
    /\ mainPc = "returned"
    /\ topErr = Nil
    /\ cancelled
    /\ \E i \in Items : ~results[i][1].Success
    /\ \E i \in Items : results[i][1].Success

\* ---------------------------------------------------------------- C13
\* What processServiceWithRetry yields for an item on its own, given only
\* that item's key, the number k of its invocations that fail before one
\* succeeds, and RetryAttempts = r.
AloneCalls(k, r) == IF k <= r THEN k + 1 ELSE r + 1
AloneResult(i, key, k, r) ==
    IF k <= r
    THEN [ServiceName |-> key, Success |-> TRUE, Error |-> Nil]
    ELSE [ServiceName |-> key, Success |-> FALSE, Error |-> UowErr(i, r + 1)]

\* C13: with no cancellation, the result of an item and the number of its
\* invocations are a function of that item's own Unit-of-Work outcomes:
\* they are what the item would get on its own, whatever the other items
\* do.  (Two runs that differ only in the outcomes of another item j
\* therefore agree on item i.)
C13_ItemIsolation ==
    \A i \in Items :
        (Stored(i) /\ Uncancelled(i)) =>
            /\ results[i][1] = AloneResult(i, services[i], fails[i], cfg.RetryAttempts)
            /\ calls[i] = AloneCalls(fails[i], cfg.RetryAttempts)

\* An item that succeeded at once beside one that failed for good, sharing
\* a single slot.
C13_Witness ==
    \E i, j \in Items :
        /\ i # j
        /\ ~cancelled
        /\ cfg.MaxConcurrency = 1
        /\ Stored(i) /\ Stored(j)
        /\ fails[j] = cfg.RetryAttempts + 1 /\ ~results[j][1].Success
        /\ fails[i] = 0 /\ results[i][1].Success

\* ---------------------------------------------------------------- C14
\* C14: when ProcessServices has returned every worker has finished: none
\* is inside Process, waiting for a slot or a delay, or about to write its
\* result or tick the bar.
C14_JoinBarrier ==
    mainPc = "returned" =>
        /\ \A i \in Items : pc[i] = "exited"
        /\ InFlight = {}
        /\ wg = 0

\* A returned batch of two or more.
C14_Witness ==
    /\ mainPc = "returned"
    /\ N >= 2
    /\ \A i \in Items : pc[i] = "exited"

\* ---------------------------------------------------------------- C15
\* C15: the tokens in the semaphore are exactly the workers between acquire
\* and release, at most MaxConcurrency of them; a worker past its release
\* has stored its result; no token is left when ProcessServices returns.
C15_SlotAccounting ==
    /\ sem = Cardinality(Holding)
    /\ cfg.MaxConcurrency >= 1 => sem <= cfg.MaxConcurrency
    /\ \A i \in Items : pc[i] \in {"wgDone", "exited"} => Stored(i)
    /\ mainPc = "returned" => sem = 0

\* All slots taken while a worker that was cancelled has already given its
\* slot back.
C15_Witness ==
    /\ cfg.MaxConcurrency >= 1
    /\ sem = cfg.MaxConcurrency
    /\ cancelled
    /\ \E i \in Items : pc[i] \in {"wgDone", "exited"} /\ ~results[i][1].Success

\* ---------------------------------------------------------------- C16
\* C16: for an empty input and any Configuration, ProcessServices returns
\* an empty result sequence and a nil error: it does not crash, it is never
\* blocked, and no worker is launched.
C16_EmptyInputReturns ==
    N = 0 =>
        /\ mainPc # "panicked"
        /\ mainPc = "returned" \/ ENABLED Main
        /\ mainPc = "returned" => (results = <<>> /\ topErr = Nil)
        /\ wg = 0


\* ---------------------------------------------------------------- C17
\* What CalculateStatistics was given and what it returned.
StatReturned == ~StatIdle /\ stat.pc = "returned"

\* C17: TotalServices is the length of the result sequence, SuccessfulCount
\* the number of its entries with Success = TRUE, and SuccessfulCount +
\* FailedCount = TotalServices.
C17_CountsAddUp ==
    StatReturned =>
        LET res == stat.results
            st == stat.stats[1]
        IN  /\ st.TotalServices = Len(res)
            /\ st.SuccessfulCount =
                   Cardinality({i \in DOMAIN res : res[i].Success})
            /\ st.SuccessfulCount + st.FailedCount = st.TotalServices

\* A sequence with successes and failures, one of them more than once.
C17_Witness ==
    /\ StatReturned
    /\ stat.stats[1].SuccessfulCount >= 1
    /\ stat.stats[1].FailedCount >= 2

\* ---------------------------------------------------------------- C18
\* The keys of the failed entries of res, in order.
FailedKeys(res) ==
    LET f == SelectSeq(res, LAMBDA r : ~r.Success)
    IN  [k \in 1..Len(f) |-> f[k].ServiceName]

\* C18: FailedServices is the keys of the entries with Success = FALSE in
\* the order of the result sequence, a key once for each of its failed
\* entries; its length is FailedCount; it is never the nil slice.
C18_FailedServicesInOrder ==
    StatReturned =>
        LET st == stat.stats[1]
        IN  /\ st.FailedServices.elems = FailedKeys(stat.results)
            /\ Len(st.FailedServices.elems) = st.FailedCount
            /\ ~st.FailedServices.isNil

\* The same key failed twice with a successful entry in between: it is
\* listed twice.
C18_Witness ==
    /\ StatReturned
    /\ \E i, j, k \in DOMAIN stat.results :
        /\ i < j /\ j < k
        /\ ~stat.results[i].Success /\ ~stat.results[k].Success
        /\ stat.results[j].Success
        /\ stat.results[i].ServiceName = stat.results[k].ServiceName
    /\ Len(stat.stats[1].FailedServices.elems) = 2

\* ---------------------------------------------------------------- C19
RECURSIVE SumDurations(_)
SumDurations(res) ==
    IF res = <<>> THEN 0 ELSE Head(res).Duration + SumDurations(Tail(res))

\* C19: TotalDuration is the sum of the durations of all entries;
\* AverageDuration is TotalDuration / TotalServices, rounded down, when the
\* sequence is not empty; for the empty sequence it is 0 and nothing is
\* divided.
C19_TotalAndAverage ==
    StatReturned =>
        LET res == stat.results
            st == stat.stats[1]
        IN  /\ st.TotalDuration = SumDurations(res)
            /\ Len(res) > 0 =>
                   /\ stat.divided
                   /\ st.AverageDuration * Len(res) <= st.TotalDuration
                   /\ st.TotalDuration < (st.AverageDuration + 1) * Len(res)
            /\ Len(res) = 0 => (~stat.divided /\ st.AverageDuration = 0)

\* An average that is rounded down, with a failed entry that took time.
C19_Witness ==
    /\ StatReturned
    /\ Len(stat.results) >= 2
    /\ stat.stats[1].TotalDuration % Len(stat.results) # 0
    /\ stat.stats[1].AverageDuration >= 1
    /\ \E i \in DOMAIN stat.results :
        ~stat.results[i].Success /\ stat.results[i].Duration > 0

\* ---------------------------------------------------------------- C20
\* C20: after MergeWithEnvironment every field whose PHANTOM_ECS_* variable
\* is unset has the value it had before the call.
C20_UnsetFieldsKept ==
    (~MergeIdle /\ merge.pc = "returned") =>
        \A f \in Fields :
            merge.env[EnvVar(f)] = "" => merge.c[f] = merge.c0[f]

\* ---------------------------------------------------------------- C22
\* Workers past their progress tick (or past the place of it).
PastTick == {i \in Items : pc[i] \in {"release", "wgDone", "exited"}}

\* C22: with ShowProgress the bar has been ticked once for each worker that
\* is past its tick and for no other; a worker ticks with its result
\* stored and its slot still held; the bar stands at N when ProcessServices
\* returns.  Without ShowProgress there is no bar and no tick.  (A tick
\* names no item, so the order of the ticks is the order in which the
\* workers reach them and no more can be said of it.)
C22_OneTickPerItem ==
    /\ cfg.ShowProgress =>
           /\ bar.count = Cardinality(PastTick)
           /\ mainPc = "returned" => (bar.count = N /\ bar.finished)
    /\ ~cfg.ShowProgress => (~bar.made /\ bar.count = 0)
    /\ \A i \in Items :
           pc[i] = "tick" => (Stored(i) /\ i \in Holding /\ cfg.ShowProgress)

\* Two items, the second ticked before the first, which is about to tick.
C22_Witness ==
    /\ cfg.ShowProgress /\ N = 2
    /\ bar.count = 1
    /\ 2 \in PastTick /\ pc[1] = "tick"

\* ---------------------------------------------------------------- C23
\* Workers that have not yet written their slot.
BeforeStore == {i \in Items : pc[i] \in {"unspawned", "acquire", "doStart",
                                           "running", "delay", "store"}}

\* C23: the slot of item i is nil until worker i writes it and from then on
\* holds what worker i built from its own retry.Do outcome: no other worker
\* writes it and nothing changes it afterwards, whatever happens to the
\* context or to the other items.
C23_OwnSlotWrittenOnce ==
    results # <<>> =>
        \A i \in Items :
            /\ i \in BeforeStore => results[i] = NilResult
            /\ i \notin BeforeStore =>
                   results[i] = BuildResult(services[i], doErr[i], lastErr[i])

\* A success stored before the cancellation, still a success at the
\* return, beside an item that failed.
C23_Witness ==
    /\ mainPc = "returned"
    /\ cancelled
    /\ \E i, j \in Items :
        /\ watched = i /\ atCancel = "stored"
        /\ results[i][1].Success
        /\ ~results[j][1].Success

\* ---------------------------------------------------------------- C24
\* Workers inside processServiceWithRetry (or back from it with the result
\* not yet stored).
InWrapper == {i \in Items : pc[i] \in {"doStart", "running", "delay", "store"}}

\* C24: every worker inside the retry wrapper, whether in a Unit-of-Work
\* invocation or asleep in a retry delay, occupies a slot, so there are
\* never more of them than tokens in the semaphore nor than
\* MaxConcurrency; an item whose attempts have begun stays inside the
\* wrapper, its slot held, until its result is stored.
C24_RetryInsideSlot ==
    /\ Cardinality(InWrapper) <= sem
    /\ cfg.MaxConcurrency >= 1 => Cardinality(InWrapper) <= cfg.MaxConcurrency
    /\ \A i \in Items :
           (calls[i] > 0 /\ ~Stored(i)) => (i \in InWrapper /\ i \in Holding)

\* A worker asleep in its retry delay holds the only slot while another
\* worker is blocked on the semaphore.
C24_Witness ==
    /\ cfg.MaxConcurrency = 1
    /\ \E i, j \in Items :
        /\ pc[i] = "delay"
        /\ pc[j] = "acquire"
        /\ ~CanSend(sem, cfg.MaxConcurrency)

\* ---------------------------------------------------------------- C25
\* Workers that have acquired their slot.
Admitted == {i \in Items : pc[i] \notin {"unspawned", "acquire"}}

\* C25: items acquire their slots in input order: when item j has acquired
\* its slot, so has every item before it.
C25_FifoAdmission ==
    \A i, j \in Items : (i < j /\ j \in Admitted) => i \in Admitted

\* ---------------------------------------------------------------- C29
\* C29: in the returned sequence a result is a success exactly when its
\* Error is nil.
C29_SuccessIffNoError ==
    mainPc = "returned" =>
        \A i \in Items : results[i][1].Success <=> (results[i][1].Error = Nil)

\* ---------------------------------------------------------------- C21
DeployReturned == ~DeployIdle /\ deploy.pc = "returned"

\* The arguments of the DeployService call pass ValidateDeployment.
DeployValid ==
    /\ ~DeployIdle
    /\ deploy.insp # <<>>
    /\ ValidateDeployment(deploy.insp[1], deploy.targetCluster,
                          deploy.newServiceName) = ""

\* C21: a dry run with valid arguments makes no ECS API call at any
\* moment, and returns a nil error and a result with Success, DryRun and a
\* non-empty Operations list.
C21_DryRunCallsNothing ==
    (DeployValid /\ deploy.dryRun) =>
        /\ deploy.api = <<>>
        /\ deploy.pc \in {"called", "returned"}
        /\ deploy.pc = "returned" =>
               /\ deploy.err = ""
               /\ deploy.result[1].Success
               /\ deploy.result[1].DryRun
               /\ deploy.result[1].Operations # <<>>

\* A dry run with valid arguments has returned.
C21_Witness ==
    /\ DeployValid /\ deploy.dryRun
    /\ DeployReturned
    /\ Len(deploy.result[1].Operations) = 2

\* ---------------------------------------------------------------- C28
\* C28: the API calls of one DeployService call are nothing, or
\* RegisterTaskDefinition, or RegisterTaskDefinition then CreateService;
\* none is made when validation fails; CreateService is called only with
\* the ARN RegisterTaskDefinition answered; the error returned is nil
\* exactly when the result has Success.
C28_ApiOrder ==
    ~DeployIdle =>
        /\ deploy.api \in {<<>>, <<"RegisterTaskDefinition">>,
                           <<"RegisterTaskDefinition", "CreateService">>}
        /\ ~DeployValid => deploy.api = <<>>
        /\ Len(deploy.api) = 2 =>
               /\ deploy.answer # <<>>
               /\ deploy.answer[1].err = "" /\ deploy.answer[1].arn # <<>>
               /\ deploy.taskDefArn = deploy.answer[1].arn[1]
        /\ deploy.pc = "returned" =>
               ((deploy.err = "") <=> deploy.result[1].Success)

\* Both calls were made and the second failed; the result says so.
C28_Witness ==
    /\ DeployReturned
    /\ Len(deploy.api) = 2
    /\ deploy.err = "create failed"
    /\ ~deploy.result[1].Success
    /\ deploy.result[1].TaskDefinitionArn # ""

\* ---------------------------------------------------------------- C26
\* The executor has been started.
CliProcessing == ~CliIdle /\ cli.pc = "processing"

\* C26: with PHANTOM_ECS_BATCH_RETRY_ATTEMPTS unset the executor is started
\* with the RetryAttempts that the flag, or else the file or the default,
\* gave.
C26_RetryAttemptsSurvivesMerge ==
    (CliProcessing /\ cli.env["PHANTOM_ECS_BATCH_RETRY_ATTEMPTS"] = "") =>
        cli.executor[1].RetryAttempts = cli.flagged[1].RetryAttempts

\* ---------------------------------------------------------------- C27
\* C27: the executor is started only as the step after a successful
\* Validate of the configuration as merged, and with that configuration:
\* never with MaxConcurrency < 1 or RetryAttempts < 0.  When the merged
\* configuration has such a value the command returns a validation error
\* and no executor is made.
C27_ValidatedBeforeExecutor ==
    ~CliIdle =>
        /\ cli.executor # <<>> =>
               /\ cli.log = <<"load", "merge", "validate", "process">>
               /\ Validate(cli.c[1]) = ""
               /\ cli.executor[1] = BatchConfigOf(cli.c[1])
               /\ cli.executor[1].MaxConcurrency >= 1
               /\ cli.executor[1].RetryAttempts >= 0
        /\ (/\ cli.pc \in {"validated", "processing", "returned"}
            /\ Len(cli.log) >= 2
            /\ \/ cli.c[1].MaxConcurrency < 1
               \/ cli.c[1].RetryAttempts < 0) =>
               /\ cli.pc = "returned"
               /\ cli.err = "validation"
               /\ cli.executor = <<>>

\* The executor was started although a flag asked for no concurrency: the
\* environment overrode it.
C27_Witness ==
    /\ CliProcessing
    /\ cli.flags.concurrency = <<0>>
    /\ cli.executor[1].MaxConcurrency = 2

\* ---------------------------------------------------------------- C30
\* C30: the budget is uint(RetryAttempts + 1).  For RetryAttempts >= 0 it
\* is 1 + RetryAttempts and an item is given up after that many failed
\* invocations.  For RetryAttempts = -1 it is 0, and for RetryAttempts < -1
\* it is 2^64 + RetryAttempts + 1: in both cases an item is never given
\* up, so with a context that is not cancelled its result is stored only
\* after a success, and ProcessServices returns only then.
C30_AttemptBudget ==
    LET r == cfg.RetryAttempts
        budget == AttemptBudget(r)
    IN  /\ r >= 0 =>
               /\ budget = <<0, 0, 0, 1 + r>>
               /\ \A i \in Items : calls[i] <= 1 + r
        /\ r = -1 => (budget = <<0, 0, 0, 0>> /\ Unlimited(budget))
        /\ r < -1 =>
               /\ budget = <<LimbBase - 1, LimbBase - 1, LimbBase - 1,
                             LimbBase + r + 1>>
               /\ ~Unlimited(budget)
        /\ r < 0 =>
               \A i \in Items :
                   /\ (Stored(i) /\ Uncancelled(i)) => results[i][1].Success
                   /\ (pc[i] = "delay" /\ calls[i] < CallCap) =>
                          ENABLED DelayElapsed(i)
                   /\ (mainPc = "returned" /\ ~cancelled) =>
                          results[i][1].Success

\* With RetryAttempts = -1 and no cancellation an item has failed more
\* often than any budget 1 + RetryAttempts and is still being retried.
C30_Witness ==
    /\ cfg.RetryAttempts = -1
    /\ ~cancelled
    /\ mainPc = "wait"
    /\ \E i \in Items :
        /\ fails[i] = CallCap
        /\ pc[i] = "delay"

====
